---------------------------- MODULE Spec2Model ----------------------------
(***************************************************************************)
(* Model of wut-temperature-exporter: the HTTP handler, Collector.Collect   *)
(* and the signal / graceful-shutdown sequence of main, as in the listing  *)
(* of src/main.go that starts at line 171 (the one with snmp.Retries,      *)
(* snmp.OnRetry and the logger).  The calls into gosnmp, client_golang and *)
(* net/http are modelled at their call sites by their documented           *)
(* contracts.                                                              *)
(*                                                                         *)
(* Strings are sequences of one-character strings, so that the string      *)
(* functions the code calls (strings.Contains, ReplaceAll, TrimSpace,      *)
(* EqualFold, ToLower, strconv.ParseFloat, strconv.Itoa) are computed      *)
(* character by character.                                                 *)
(***************************************************************************)
EXTENDS Integers, Sequences, FiniteSets, TLC

-----------------------------------------------------------------------------
(* Bounds of the model *)

\* longest walk result (number of leaves) of the collection specification
MaxLeaves == 3
\* largest number of configured target records
MaxTargets == 2
\* largest number of `target` query parameters in one request
MaxParams == 2

(* Program constants *)

\* snmp.Retries = 3
Retries == 3
\* http.StatusBadRequest
StatusBadRequest == 400
\* http.Error(w, "Not found", 404)
StatusNotFound == 404
\* promhttp's handler answers a successful gather with 200
StatusOK == 200

-----------------------------------------------------------------------------
(* Strings *)

Digits == {"0", "1", "2", "5", "8", "9"}
Spaces == {" ", "\t"}

DigitVal(c) ==
    CASE c = "0" -> 0 [] c = "1" -> 1 [] c = "2" -> 2
      [] c = "5" -> 5 [] c = "8" -> 8 [] c = "9" -> 9

\* unicode.ToLower on the letters the model uses
LowerChar(c) ==
    CASE c = "A" -> "a" [] c = "B" -> "b" [] OTHER -> c

\* strings.ToLower
ToLower(s) == [i \in 1..Len(s) |-> LowerChar(s[i])]

\* strings.EqualFold: equality under simple case folding
EqualFold(s, t) ==
    /\ Len(s) = Len(t)
    /\ \A i \in 1..Len(s) : LowerChar(s[i]) = LowerChar(t[i])

\* strings.Contains(s, sub)
Contains(s, sub) ==
    \E i \in 0..(Len(s) - Len(sub)) :
        \A j \in 1..Len(sub) : s[i + j] = sub[j]

\* strings.ReplaceAll(s, old, new) for one-character old and new
ReplaceAll(s, old, new) ==
    [i \in 1..Len(s) |-> IF s[i] = old THEN new ELSE s[i]]

\* strings.TrimSpace
TrimSpace(s) ==
    LET nonSp == {i \in 1..Len(s) : s[i] \notin Spaces}
    IN  IF nonSp = {} THEN <<>>
        ELSE LET lo == CHOOSE i \in nonSp : \A j \in nonSp : i <= j
                 hi == CHOOSE i \in nonSp : \A j \in nonSp : j <= i
             IN  SubSeq(s, lo, hi)

\* strconv.Itoa for the positive numbers the model needs
Itoa(n) ==
    LET d(k) == CASE k = 0 -> "0" [] k = 1 -> "1" [] k = 2 -> "2" [] k = 3 -> "3"
                  [] k = 4 -> "4" [] k = 5 -> "5" [] k = 6 -> "6" [] k = 7 -> "7"
                  [] k = 8 -> "8" [] k = 9 -> "9"
    IN  IF n < 10 THEN <<d(n)>> ELSE <<d(n \div 10), d(n % 10)>>

RECURSIVE DigitsValue(_)
\* the decimal value of a sequence of digits
DigitsValue(s) ==
    IF s = <<>> THEN 0
    ELSE 10 * DigitsValue(SubSeq(s, 1, Len(s) - 1)) + DigitVal(s[Len(s)])

RECURSIVE Normalize(_, _)
\* one representation per number: num / 10^scale without trailing zeros
Normalize(num, scale) ==
    IF scale > 0 /\ num % 10 = 0 THEN Normalize(num \div 10, scale - 1)
    ELSE [ok |-> TRUE, num |-> num, scale |-> scale]

(***************************************************************************)
(* strconv.ParseFloat(s, 32) on the characters the model uses (digits,     *)
(* sign, point, and characters that are never part of a number): the       *)
(* decimal grammar: an optional sign, then digits with at most one point   *)
(* and at least one digit.  The result is [ok |-> FALSE] for a syntax      *)
(* error, else the number as num / 10^scale.                               *)
(***************************************************************************)
ParseFloat(s) ==
    LET signed == Len(s) > 0 /\ s[1] \in {"+", "-"}
        body   == IF signed THEN SubSeq(s, 2, Len(s)) ELSE s
        points == {i \in 1..Len(body) : body[i] = "."}
        wellFormed ==
            /\ \A i \in 1..Len(body) : body[i] \in Digits \cup {"."}
            /\ Cardinality(points) <= 1
            /\ \E i \in 1..Len(body) : body[i] \in Digits
    IN  IF ~wellFormed THEN [ok |-> FALSE]
        ELSE LET p    == IF points = {} THEN Len(body) + 1
                         ELSE CHOOSE i \in points : TRUE
                 int  == SubSeq(body, 1, p - 1)
                 frac == SubSeq(body, p + 1, Len(body))
                 mag  == DigitsValue(int \o frac)
             IN  Normalize(IF signed /\ s[1] = "-" THEN 0 - mag ELSE mag,
                           Len(frac))

-----------------------------------------------------------------------------
(* Collector.Collect: the loop over the walk result *)

\* the type switch on p.Value: a string or a []uint8 gives its text, any other
\* value leaves data == ""
LeafText(p) ==
    CASE p.type = "string" -> p.val
      [] p.type = "bytes"  -> p.val
      [] OTHER             -> <<>>

\* strconv.Itoa(x+1), the sensor label of the leaf at 0-based index x
SensorLabel(x) == Itoa(x + 1)

\* a loop that leaves at the first leaf it cannot use, instead of skipping it
RECURSIVE CollectLoopBreak(_, _, _)
CollectLoopBreak(data, room, x) ==
    IF x >= Len(data) THEN <<>>
    ELSE LET text == LeafText(data[x + 1])
             f    == ParseFloat(TrimSpace(ReplaceAll(text, ",", ".")))
         IN  IF Contains(text, <<"-", "-">>) \/ ~f.ok THEN <<>>
             ELSE <<[room   |-> ToLower(room),
                     sensor |-> SensorLabel(x),
                     value  |-> <<f.num, f.scale>>]>>
                  \o CollectLoopBreak(data, room, x + 1)

\* for x, p := range data { ... }: the metrics sent, in order, from index x on
RECURSIVE CollectLoop(_, _, _)
CollectLoop(data, room, x) ==
    IF x >= Len(data) THEN <<>>
    ELSE LET text == LeafText(data[x + 1])
             rest == CollectLoop(data, room, x + 1)
         IN  IF Contains(text, <<"-", "-">>) THEN rest
             ELSE LET f == ParseFloat(TrimSpace(ReplaceAll(text, ",", ".")))
                  IN  IF ~f.ok THEN rest
                      ELSE <<[room   |-> ToLower(room),
                              sensor |-> SensorLabel(x),
                              value  |-> <<f.num, f.scale>>]>> \o rest

-----------------------------------------------------------------------------
(* The HTTP handler: validation and target resolution *)

\* query.Get("target"): the first value, or "" when there is none
QueryGet(q) == IF Len(q) = 0 THEN <<>> ELSE q[1]

\* a validation that looks at the first value only
BadRequestFirstOnly(q) == QueryGet(q) = <<>>

\* len(query["target"]) != 1 || target == ""
BadRequest(q) == Len(q) # 1 \/ QueryGet(q) = <<>>

\* a resolver that also takes a key that is the beginning of a room name
MatchesPrefix(x, target) ==
    \/ Len(target) <= Len(x.Room) /\ EqualFold(SubSeq(x.Room, 1, Len(target)), target)
    \/ x.IP = target

\* a resolver that compares the room name with ==
MatchesCaseSensitive(x, target) == x.Room = target \/ x.IP = target

\* the condition of the resolution loop
Matches(x, target) == EqualFold(x.Room, target) \/ x.IP = target

\* a resolution loop without the break: the last matching record stays
ResolveLast(targets, target) ==
    LET hits == {i \in 1..Len(targets) : Matches(targets[i], target)}
    IN  IF hits = {} THEN [room |-> <<>>, ip |-> <<>>]
        ELSE LET i == CHOOSE k \in hits : \A j \in hits : j <= k
             IN  [room |-> targets[i].Room, ip |-> targets[i].IP]

\* room := ""; ip := ""; for _, x := range config.Targets { if ... break }
Resolve(targets, target) ==
    LET hits == {i \in 1..Len(targets) : Matches(targets[i], target)}
    IN  IF hits = {} THEN [room |-> <<>>, ip |-> <<>>]
        ELSE LET i == CHOOSE k \in hits : \A j \in hits : k <= j
             IN  [room |-> targets[i].Room, ip |-> targets[i].IP]

-----------------------------------------------------------------------------
(* State *)

VARIABLES
    config,     \* the configuration read at startup: Targets and Community
    reqs,       \* per inbound request: the handler's position and locals
    registry,   \* per registry: the requests whose Collector is registered in it
    server      \* the listener, the shutdown sequence, the process exit and log

vars == <<config, reqs, registry, server>>

\* the inbound requests; each is served by its own goroutine
Reqs == {1, 2}

NoCollector == [Ip |-> <<>>, Room |-> <<>>, Community |-> ""]

IdleRequest ==
    [pc        |-> "idle",      \* idle, walk, done, aborted
     query     |-> <<>>,        \* query["target"]
     collector |-> NoCollector, \* c := Collector{...}
     conn      |-> "none",      \* snmp.Conn: none, open, closed
     data      |-> <<>>,        \* the leaves WalkAll has received so far
     retries   |-> 0,           \* timeouts of the exchange in flight
     warns     |-> 0,           \* "SNMP retry" warnings logged (OnRetry)
     errs      |-> {},          \* error messages logged
     metrics   |-> <<>>,        \* what Collect sent on the metrics channel
     status    |-> 0,           \* HTTP status of the response, 0: none yet
     body      |-> <<>>,        \* samples of the response
     cancelled |-> FALSE,       \* the client gave up while the walk ran
     draining  |-> FALSE]       \* the response was written during Shutdown

RunningServer ==
    [accepting |-> TRUE,        \* the listener accepts connections
     shutting  |-> FALSE,       \* server.Shutdown(ctx) is running
     exit      |-> "running",   \* running, normal, forced
     log       |-> {}]

-----------------------------------------------------------------------------
(* Inputs *)

T(ip, room) == [IP |-> ip, Room |-> room]

\* one device, as in the collection specification
CollectConfig ==
    [Targets |-> <<T(<<"1">>, <<"A", "b">>)>>, Community |-> "public"]

\* two devices in two rooms, as in the concurrent specification
ServerConfig ==
    [Targets   |-> <<T(<<"1">>, <<"A", "b">>), T(<<"2">>, <<"b">>)>>,
     Community |-> "public"]

\* addresses and room names of the resolution specification; a configuration
\* file may repeat a room, differ only in case, or leave a field empty
Addrs == {<<>>, <<"1">>, <<"a">>}
Rooms == {<<>>, <<"a">>, <<"A">>, <<"a", "b">>}
Keys  == {<<>>, <<"a">>, <<"A">>, <<"A", "B">>, <<"1">>, <<"b">>}

RECURSIVE SeqsUpTo(_, _)
\* the sequences over S of length at most n
SeqsUpTo(S, n) ==
    IF n = 0 THEN {<<>>}
    ELSE LET shorter == SeqsUpTo(S, n - 1)
         IN  shorter \cup {Append(q, x) : q \in shorter, x \in S}

Configs ==
    {[Targets |-> ts, Community |-> "public"] :
        ts \in SeqsUpTo([IP : Addrs, Room : Rooms], MaxTargets)}

Str(v)   == [type |-> "string", val |-> v]
Bytes(v) == [type |-> "bytes", val |-> v]

\* leaves a device answers with: readings, the "no sensor" sentinel, European
\* decimal commas, padding, malformed text, and a value that is no text
LeafValues ==
    {Str(<<"2", "1", ".", "5">>), Str(<<"-", "-">>), Bytes(<<"1", "9", ",", "8">>),
     Bytes(<<" ", "-", "5", "\t">>), Str(<<"b", "a", "d">>), Str(<<"1", ",", "2", ",", "5">>),
     [type |-> "int", val |-> 21]}

\* the subtrees a device may hold in the collection specification: every
\* sequence of at most MaxLeaves of these leaves
CollectWalks == [leaves |-> LeafValues, max |-> MaxLeaves]

\* the subtrees a device may hold in the resolution and concurrent
\* specifications: empty, one reading, or one absent sensor
SmallWalks == [leaves |-> {Str(<<"8">>), Str(<<"-", "-">>)}, max |-> 1]

-----------------------------------------------------------------------------
(* Operations *)

\* one registry for the whole process
RegistryShared(r) == 1

\* registry := prometheus.NewRegistry(): each request gets a registry of its own
RegistryOf(r) == r

\* a Collect that goes on to the loop with what WalkAll returned beside the error
CollectMetricsIgnoreErr(walkErr, data, room) == CollectLoop(data, room, 0)

\* Collect after WalkAll returned: nothing on an error, else the loop
CollectMetrics(walkErr, data, room) ==
    IF walkErr THEN <<>> ELSE CollectLoop(data, room, 0)

\* a Collect that closes the connection at its end only, not on the error return
ConnAtReturnLeak(walkErr) == IF walkErr THEN "open" ELSE "closed"

\* snmp.Conn when Collect returns after a successful Connect:
\* defer snmp.Conn.Close()
ConnAtReturn(walkErr) == "closed"

\* snmp.Retries left at the zero value of the struct
BudgetExhaustedNoRetry(n) == n > 0

\* the retry loop of an exchange gives up after snmp.Retries retries
BudgetExhausted(n) == n > Retries

RECURSIVE Concat(_, _, _)
\* the metrics of the requests in S, in the order of their numbers
Concat(rq, S, k) ==
    IF k > Cardinality(Reqs) THEN <<>>
    ELSE (IF k \in S THEN rq[k].metrics ELSE <<>>) \o Concat(rq, S, k + 1)

\* h.ServeHTTP: gather the collectors of the handler's registry
Gather(rq, reg, r) == Concat(rq, reg[RegistryOf(r)], 1)

\* the handler returned: the response is written
Respond(rq, reg, r, status) ==
    [rq EXCEPT ![r].pc = "done", ![r].status = status,
               ![r].draining = server.shutting,
               ![r].body = IF status = StatusOK THEN Gather(rq, reg, r) ELSE <<>>]

\* requests whose handler has not returned
InFlight(rq) == {r \in Reqs : rq[r].pc = "walk"}

\* a server.Close() in place of server.Shutdown(ctx): it waits for nothing
QuiescentNoWait(rq) == TRUE

\* server.Shutdown returns nil once no connection is active
Quiescent(rq) == InFlight(rq) = {}

Init(cfgs) ==
    /\ config \in cfgs
    /\ reqs = [r \in Reqs |-> IdleRequest]
    /\ registry = [r \in Reqs |-> {}]
    /\ server = RunningServer

Accepted(r) == server.accepting /\ server.exit = "running" /\ reqs[r].pc = "idle"

\* lines 296-302: the request is refused with 400
RejectBadRequest(r, queries) ==
    /\ Accepted(r)
    /\ \E q \in queries :
          /\ BadRequest(q)
          /\ reqs' = Respond([reqs EXCEPT ![r].query = q], registry, r,
                             StatusBadRequest)
    /\ UNCHANGED <<config, registry, server>>

\* lines 296-321: the key resolves to no address, 404
RejectNotFound(r, queries) ==
    /\ Accepted(r)
    /\ \E q \in queries :
          /\ ~BadRequest(q)
          /\ Resolve(config.Targets, QueryGet(q)).ip = <<>>
          /\ reqs' = Respond([reqs EXCEPT ![r].query = q,
                                          ![r].errs = @ \cup {"No target found"}],
                             registry, r, StatusNotFound)
    /\ UNCHANGED <<config, registry, server>>

\* lines 296-325 and Collect up to snmp.Connect, which fails: Collect logs
\* and returns, the handler serves an empty registry output
ScrapeConnectFails(r, queries) ==
    /\ Accepted(r)
    /\ \E q \in queries :
          LET res == Resolve(config.Targets, QueryGet(q))
              reg == [registry EXCEPT ![RegistryOf(r)] = @ \cup {r}]
          IN  /\ ~BadRequest(q)
              /\ res.ip # <<>>
              /\ registry' = reg
              /\ reqs' = Respond([reqs EXCEPT
                            ![r].query = q,
                            ![r].collector = [Ip |-> res.ip, Room |-> res.room,
                                              Community |-> config.Community],
                            ![r].errs = @ \cup {"Error connecting to SNMP target"}],
                          reg, r, StatusOK)
    /\ UNCHANGED <<config, server>>

\* lines 296-325 and Collect up to the first request of WalkAll
ScrapeStarts(r, queries) ==
    /\ Accepted(r)
    /\ \E q \in queries :
          LET res == Resolve(config.Targets, QueryGet(q))
          IN  /\ ~BadRequest(q)
              /\ res.ip # <<>>
              /\ registry' = [registry EXCEPT ![RegistryOf(r)] = @ \cup {r}]
              /\ reqs' = [reqs EXCEPT
                            ![r].pc = "walk",
                            ![r].query = q,
                            ![r].collector = [Ip |-> res.ip, Room |-> res.room,
                                              Community |-> config.Community],
                            ![r].conn = "open"]
    /\ UNCHANGED <<config, server>>

Walking(r) == server.exit = "running" /\ reqs[r].pc = "walk"

\* Collect from the return of WalkAll to the end of the handler
FinishCollect(rq, r, walkErr, errs) ==
    LET got == [rq EXCEPT
                  ![r].metrics = CollectMetrics(walkErr, rq[r].data,
                                                rq[r].collector.Room),
                  ![r].conn = ConnAtReturn(walkErr),
                  ![r].errs = @ \cup errs]
    IN  Respond(got, registry, r, StatusOK)

\* the attempt in flight times out: OnRetry logs, and the exchange is sent
\* again unless the retries are used up, which fails the walk
ExchangeTimeout(r) ==
    /\ Walking(r)
    /\ LET n      == reqs[r].retries + 1
           warned == [reqs EXCEPT ![r].warns = @ + 1, ![r].retries = n]
       IN  reqs' = IF BudgetExhausted(n)
                   THEN FinishCollect(warned, r, TRUE,
                                      {"Error walking SNMP data: request timeout"})
                   ELSE warned
    /\ UNCHANGED <<config, registry, server>>

\* the device answers with the next leaf of its subtree, one of walks
ExchangeReply(r, walks) ==
    /\ Walking(r)
    /\ Len(reqs[r].data) < walks.max
    /\ \E leaf \in walks.leaves :
          reqs' = [reqs EXCEPT ![r].data = Append(@, leaf), ![r].retries = 0]
    /\ UNCHANGED <<config, registry, server>>

\* the device answers past the subtree: WalkAll returns the leaves, no error
ExchangeEnd(r) ==
    /\ Walking(r)
    /\ reqs' = FinishCollect(reqs, r, FALSE, {})
    /\ UNCHANGED <<config, registry, server>>

\* the exchange fails for another reason than a timeout: WalkAll returns the
\* leaves received so far and the error
ExchangeError(r) ==
    /\ Walking(r)
    /\ reqs' = FinishCollect(reqs, r, TRUE, {"Error walking SNMP data: error"})
    /\ UNCHANGED <<config, registry, server>>

\* the client closes the inbound connection while the walk runs; the walk
\* runs under context.Background() and does not see it
Cancel(r) ==
    /\ Walking(r)
    /\ ~reqs[r].cancelled
    /\ reqs' = [reqs EXCEPT ![r].cancelled = TRUE]
    /\ UNCHANGED <<config, registry, server>>

\* sig := <-interrupt (SIGINT or SIGTERM): the signal is logged and
\* server.Shutdown(ctx) closes the listener
Signal ==
    /\ server.exit = "running"
    /\ ~server.shutting
    /\ server' = [server EXCEPT !.accepting = FALSE, !.shutting = TRUE,
                                !.log = @ \cup {"Shutting down server"}]
    /\ UNCHANGED <<config, reqs, registry>>

\* Shutdown returned nil: "Server stopped", main returns
ShutdownDone ==
    /\ server.shutting
    /\ server.exit = "running"
    /\ Quiescent(reqs)
    /\ server' = [server EXCEPT !.exit = "normal",
                                !.log = @ \cup {"Server stopped"}]
    /\ UNCHANGED <<config, reqs, registry>>

\* the 5 s context expires first: Shutdown returns its error, logger.Fatal
\* logs and exits the process, handlers still running never answer
GraceExpired ==
    /\ server.shutting
    /\ server.exit = "running"
    /\ ~Quiescent(reqs)
    /\ server' = [server EXCEPT !.exit = "forced",
                                !.log = @ \cup {"Server forced to shutdown:"}]
    /\ reqs' = [r \in Reqs |->
                  IF r \in InFlight(reqs) THEN [reqs[r] EXCEPT !.pc = "aborted"]
                  ELSE reqs[r]]
    /\ UNCHANGED <<config, registry>>

\* what one request does, with the queries and device contents a
\* specification draws
Handle(r, queries, walks) ==
    \/ RejectBadRequest(r, queries)
    \/ RejectNotFound(r, queries)
    \/ ScrapeConnectFails(r, queries)
    \/ ScrapeStarts(r, queries)
    \/ ExchangeTimeout(r)
    \/ ExchangeReply(r, walks)
    \/ ExchangeEnd(r)
    \/ ExchangeError(r)

Lifecycle ==
    \/ Signal
    \/ ShutdownDone
    \/ GraceExpired

-----------------------------------------------------------------------------
(* Specifications *)

\* the target parameters of a request: up to MaxParams values
CollectQueries == SeqsUpTo({<<>>, <<"a", "B">>, <<"2">>}, MaxParams)
ResolveQueries == SeqsUpTo(Keys, MaxParams)

\* one scrape of one device, with every walk result up to MaxLeaves leaves,
\* and a client that may give up meanwhile
InitCollect == Init({CollectConfig})
NextCollect ==
    \/ Handle(1, CollectQueries, CollectWalks)
    \/ Cancel(1)
SpecCollect == InitCollect /\ [][NextCollect]_vars

\* one scrape under every configuration of up to MaxTargets records
InitResolve == Init(Configs)
NextResolve == Handle(1, ResolveQueries, SmallWalks)
SpecResolve == InitResolve /\ [][NextResolve]_vars

\* what the clients of the concurrent specification ask for: no target, the
\* first device by its room, the second by its address, an unknown key
ServerQueries == {<<>>, <<<<"a", "B">>>>, <<<<"2">>>>, <<<<"3">>>>}

\* concurrent scrapes of two devices, and the shutdown sequence
InitServer == Init({ServerConfig})
NextServer ==
    \/ \E r \in Reqs : Handle(r, ServerQueries, SmallWalks) \/ Cancel(r)
    \/ Lifecycle
Spec == InitServer /\ [][NextServer]_vars

-----------------------------------------------------------------------------
(* Vocabulary of the properties *)

Answered(r)   == reqs[r].pc # "idle"
Done(r)       == reqs[r].pc = "done"
ValidQuery(r) == Len(reqs[r].query) = 1 /\ reqs[r].query[1] # <<>>
Key(r)        == reqs[r].query[1]

ConnectFailed(r) == "Error connecting to SNMP target" \in reqs[r].errs
TimedOut(r)      == "Error walking SNMP data: request timeout" \in reqs[r].errs
WalkFailed(r)    == TimedOut(r) \/ "Error walking SNMP data: error" \in reqs[r].errs
WalkReturned(r)  == Done(r) /\ reqs[r].conn = "closed" /\ ~WalkFailed(r)

\* the text parses as a number after trimming and replacing commas with points
Number(text) == ParseFloat(ReplaceAll(TrimSpace(text), ",", "."))
Usable(p)    == ~Contains(LeafText(p), <<"-", "-">>) /\ Number(LeafText(p)).ok

\* a record matches a key: its room case-insensitively, or its address exactly
RecordMatches(t, k) == ToLower(t.Room) = ToLower(k) \/ t.IP = k
FirstMatching(i, k) ==
    /\ i \in 1..Len(config.Targets)
    /\ RecordMatches(config.Targets[i], k)
    /\ \A j \in 1..(i - 1) : ~RecordMatches(config.Targets[j], k)
NoneMatching(k) == \A i \in 1..Len(config.Targets) : ~RecordMatches(config.Targets[i], k)

\* the scrape of r goes on against record t
ProceedsWith(r, t) ==
    /\ reqs[r].status # StatusNotFound
    /\ reqs[r].status # StatusBadRequest
    /\ reqs[r].collector.Ip = t.IP
    /\ reqs[r].collector.Room = t.Room
    /\ r \in registry[r]

-----------------------------------------------------------------------------
(* Properties *)

\* C1: for every walk result returned without error, Collect emits exactly one
\* sample for each leaf whose text has no "--" and parses as a number after
\* trimming and replacing commas with points, and none for any other leaf; each
\* sample carries the lowercased room and the 1-based position of its leaf in
\* the full walk result, so a skipped leaf still consumes its index.
C1_SamplesPerParsedLeaf ==
    \A r \in Reqs : WalkReturned(r) =>
        LET data == reqs[r].data
            body == reqs[r].body
        IN  /\ \A i \in 1..Len(data) :
                 Cardinality({k \in 1..Len(body) : body[k].sensor = Itoa(i)})
                    = IF Usable(data[i]) THEN 1 ELSE 0
            /\ \A k \in 1..Len(body) :
                 /\ body[k].room = <<"a", "b">>
                 /\ \E i \in 1..Len(data) :
                      /\ body[k].sensor = Itoa(i)
                      /\ body[k].value = <<Number(LeafText(data[i])).num,
                                           Number(LeafText(data[i])).scale>>

\* the walk result ["21.5", "--", "19,8"] gave sensors "1" and "3" only
C1_Witness ==
    /\ WalkReturned(1)
    /\ reqs[1].data = <<Str(<<"2", "1", ".", "5">>), Str(<<"-", "-">>),
                        Bytes(<<"1", "9", ",", "8">>)>>
    /\ reqs[1].body = <<[room |-> <<"a", "b">>, sensor |-> <<"1">>, value |-> <<215, 1>>],
                        [room |-> <<"a", "b">>, sensor |-> <<"3">>, value |-> <<198, 1>>]>>

\* C2: when the connection fails or the walk returns an error, also after some
\* leaves were received, the scrape emits zero samples, never a partial set, and
\* the response is still a 200 with no sample.
C2_FailureGivesEmpty200 ==
    \A r \in Reqs : (Done(r) /\ (ConnectFailed(r) \/ WalkFailed(r))) =>
        /\ reqs[r].metrics = <<>>
        /\ reqs[r].body = <<>>
        /\ reqs[r].status = StatusOK

\* the walk failed after a usable leaf had been received
C2_Witness ==
    /\ Done(1) /\ WalkFailed(1)
    /\ Len(reqs[1].data) >= 2
    /\ Usable(reqs[1].data[1])
    /\ reqs[1].body = <<>> /\ reqs[1].status = StatusOK

\* C3: a request with zero target parameters, more than one, or exactly one
\* empty one is answered 400; a request with exactly one non-empty target is
\* not answered 400.
C3_BadRequestIff ==
    \A r \in Reqs : Answered(r) =>
        LET q == reqs[r].query
        IN  /\ (Len(q) = 0 \/ Len(q) > 1 \/ (Len(q) = 1 /\ q[1] = <<>>))
                  => reqs[r].status = StatusBadRequest
            /\ ValidQuery(r) => reqs[r].status # StatusBadRequest

\* two target parameters, the first one a configured room: 400
C3_Witness ==
    /\ Done(1)
    /\ Len(reqs[1].query) = 2
    /\ \E i \in 1..Len(config.Targets) : RecordMatches(config.Targets[i], reqs[1].query[1])
    /\ reqs[1].status = StatusBadRequest

\* C4: a valid request whose key matches no configured record ends with 404,
\* and in that scrape no collector is registered and no connection or walk
\* toward a device is started.
C4_UnknownKeyIs404 ==
    \A r \in Reqs : (Answered(r) /\ ValidQuery(r) /\ NoneMatching(Key(r))) =>
        /\ Done(r)
        /\ reqs[r].status = StatusNotFound
        /\ registry[r] = {}
        /\ reqs[r].collector = NoCollector
        /\ reqs[r].conn = "none"
        /\ reqs[r].data = <<>> /\ reqs[r].retries = 0 /\ reqs[r].warns = 0

\* the key is the beginning of a configured room name and matches nothing
C4_Witness ==
    /\ Done(1) /\ ValidQuery(1)
    /\ Key(1) = <<"a">>
    /\ Len(config.Targets) = 2
    /\ \A i \in 1..2 : config.Targets[i].Room = <<"a", "b">> /\ config.Targets[i].IP = <<"1">>
    /\ reqs[1].status = StatusNotFound

\* C5 as stated: for every configured record T, the key T.room in any letter
\* case and the key T.address both select T: the scrape goes on against T's
\* address with T's room and is not answered 404.
\* (Stated here for configurations whose records all have an address, and for
\* non-empty keys, so that a violation is a well-formed record that a key of
\* its own fails to select.)
C5_EveryRecordResolves ==
    \A r \in Reqs :
        (/\ Answered(r) /\ ValidQuery(r)
         /\ \A j \in 1..Len(config.Targets) : config.Targets[j].IP # <<>>) =>
            \A i \in 1..Len(config.Targets) :
                RecordMatches(config.Targets[i], Key(r))
                    => ProceedsWith(r, config.Targets[i])

\* C5 as amended: for a non-empty key equal to T.room in any letter case or to
\* T.address, T is selected provided no earlier record matches the key
\* (otherwise that earlier record is); the scrape goes on against the selected
\* record's address with its room and is not answered 404, except that a
\* selected record with an empty address is answered 404.
C5_FirstRecordResolves ==
    \A r \in Reqs : (Answered(r) /\ ValidQuery(r)) =>
        \A i \in 1..Len(config.Targets) :
            FirstMatching(i, Key(r)) =>
                IF config.Targets[i].IP = <<>>
                THEN reqs[r].status = StatusNotFound /\ registry[r] = {}
                ELSE ProceedsWith(r, config.Targets[i])

\* the key "AB" selected the second record, whose room is "ab"
C5_Witness ==
    /\ Answered(1) /\ ValidQuery(1)
    /\ Key(1) = <<"A", "B">>
    /\ FirstMatching(2, Key(1))
    /\ ProceedsWith(1, config.Targets[2])

\* C6: resolution selects at most one record: the first in configured order
\* whose room equals the key case-insensitively or whose address equals it
\* exactly; later matching records are never used, and partial matches never
\* select a record.
C6_FirstMatchOnly ==
    \A r \in Reqs : (Answered(r) /\ ValidQuery(r)) =>
        /\ Cardinality(registry[r]) <= 1
        /\ (reqs[r].collector # NoCollector \/ registry[r] # {}) =>
              \E i \in 1..Len(config.Targets) :
                  FirstMatching(i, Key(r)) /\ ProceedsWith(r, config.Targets[i])
        /\ NoneMatching(Key(r)) => reqs[r].collector = NoCollector

\* two different records match the key, and the first one was used
C6_Witness ==
    /\ Answered(1) /\ ValidQuery(1)
    /\ Len(config.Targets) = 2
    /\ RecordMatches(config.Targets[1], Key(1))
    /\ RecordMatches(config.Targets[2], Key(1))
    /\ config.Targets[1].IP # config.Targets[2].IP
    /\ config.Targets[1].Room # config.Targets[2].Room
    /\ ProceedsWith(1, config.Targets[1])

\* C7: an exchange that times out is retried up to 3 times; a timeout followed
\* by a successful attempt within the retry budget gives the full leaf sequence
\* and no error, only the retry callback fires, once per retry; the walk fails
\* by timeout only when the budget is exhausted, and then the scrape completes
\* with zero samples.
C7_RetryBudget ==
    \A r \in Reqs :
        /\ reqs[r].pc = "walk" => reqs[r].retries <= Retries
        /\ reqs[r].warns >= reqs[r].retries
        /\ reqs[r].data = <<>> => reqs[r].warns = reqs[r].retries
        /\ WalkReturned(r) =>
              /\ reqs[r].errs = {}
              /\ Len(reqs[r].body) =
                    Cardinality({i \in 1..Len(reqs[r].data) : Usable(reqs[r].data[i])})
        /\ TimedOut(r) <=> reqs[r].retries > Retries
        /\ TimedOut(r) =>
              /\ reqs[r].retries = Retries + 1
              /\ Done(r) /\ reqs[r].status = StatusOK /\ reqs[r].body = <<>>

\* the first exchange timed out three times and was then answered; the walk
\* returned its leaf without an error
C7_Witness ==
    /\ WalkReturned(1)
    /\ reqs[1].warns = Retries
    /\ reqs[1].retries = 0
    /\ reqs[1].errs = {}
    /\ reqs[1].data = <<Bytes(<<"1", "9", ",", "8">>)>>
    /\ Len(reqs[1].body) = 1

\* C8: on every exit path of a collection (successful walk, connect failure,
\* walk error, cancellation of the inbound request mid-walk) the transport the
\* walker acquired is released by the time Collect returns.
C8_TransportReleased ==
    \A r \in Reqs :
        /\ Done(r) => reqs[r].conn # "open"
        /\ (Done(r) /\ r \in registry[r] /\ ~ConnectFailed(r)) => reqs[r].conn = "closed"
        /\ reqs[r].conn = "open" => reqs[r].pc \in {"walk", "aborted"}

\* the client went away mid-walk, the walk then failed, the connection is closed
C8_Witness ==
    /\ Done(1) /\ reqs[1].cancelled /\ WalkFailed(1)
    /\ reqs[1].data # <<>>
    /\ reqs[1].conn = "closed"

\* the response of r holds what its own walk of its own target gives
OwnSamples(r) ==
    LET data == reqs[r].data
        body == reqs[r].body
    IN  \E i \in 1..Len(config.Targets) :
          /\ FirstMatching(i, Key(r))
          /\ Len(body) = IF WalkReturned(r)
                         THEN Cardinality({j \in 1..Len(data) : Usable(data[j])})
                         ELSE 0
          /\ \A k \in 1..Len(body) :
               /\ body[k].room = ToLower(config.Targets[i].Room)
               /\ \E j \in 1..Len(data) :
                    /\ Usable(data[j])
                    /\ body[k].sensor = Itoa(j)
                    /\ body[k].value = <<Number(LeafText(data[j])).num,
                                         Number(LeafText(data[j])).scale>>

\* C9: under any interleaving of concurrent scrapes, each response holds only
\* samples labelled with the lowercased room of its own resolved target and
\* valued from its own walk; registries and collectors are per request, and a
\* failure in one scrape changes neither another scrape's outcome nor any
\* process-wide state.
C9_ScrapesIsolated ==
    /\ config = ServerConfig
    /\ ~server.shutting => server = RunningServer
    /\ \A r \in Reqs :
         /\ registry[r] \subseteq {r}
         /\ Done(r) =>
              IF reqs[r].status = StatusOK THEN OwnSamples(r) ELSE reqs[r].body = <<>>

\* request 1 failed its walk of the first device after a leaf, request 2 got
\* its sample of the second device
C9_Witness ==
    /\ Done(1) /\ WalkFailed(1)
    /\ reqs[1].collector.Ip = <<"1">> /\ reqs[1].data = <<Str(<<"8">>)>>
    /\ reqs[1].body = <<>>
    /\ Done(2) /\ reqs[2].collector.Ip = <<"2">>
    /\ reqs[2].body = <<[room |-> <<"b">>, sensor |-> <<"1">>, value |-> <<8, 0>>]>>

ShutdownInvariant ==
    /\ server.shutting => ~server.accepting
    /\ server.exit = "normal" =>
          /\ server.shutting
          /\ \A r \in Reqs : reqs[r].pc \in {"idle", "done"}
          /\ "Server stopped" \in server.log
          /\ "Server forced to shutdown:" \notin server.log
    /\ server.exit = "forced" =>
          /\ \E r \in Reqs : reqs[r].pc = "aborted"
          /\ "Server forced to shutdown:" \in server.log
          /\ "Server stopped" \notin server.log
    /\ (\E r \in Reqs : reqs[r].pc = "aborted") => server.exit = "forced"
    /\ \A r \in Reqs :
         /\ Done(r) => reqs[r].status \in {StatusOK, StatusBadRequest, StatusNotFound}
         /\ (Done(r) /\ reqs[r].draining) => reqs[r].status = StatusOK

ShutdownStep ==
    /\ server.shutting => \A r \in Reqs : reqs[r].pc = "idle" => reqs'[r].pc = "idle"
    /\ server.exit # "running" => UNCHANGED vars

\* C10: after a termination signal the server accepts no new scrapes; a scrape
\* in flight that finishes within the grace period still gets its valid
\* response and the process then stops normally; if an in-flight scrape
\* outlasts the grace period the process is forced to terminate and that exit
\* is logged as abnormal.
C10_GracefulShutdown == [] ShutdownInvariant /\ [][ShutdownStep]_vars

\* a scrape in flight at the signal was answered with its sample, and the
\* process stopped normally
C10_Witness ==
    /\ server.exit = "normal"
    /\ Done(1) /\ reqs[1].draining
    /\ reqs[1].status = StatusOK /\ reqs[1].body # <<>>

=============================================================================
